---- MODULE Spec2Model ----
(***************************************************************************)
(* Election Result Statistical Analysis Portal (src/streamlit_app.py).     *)
(*                                                                         *)
(* Two specifications share the pipeline operators:                        *)
(*   Spec      the Streamlit session: login, navigation, refresh, the      *)
(*             winner-prediction page and logout, one action per script    *)
(*             run, over the record set generate_election_data produces;   *)
(*   PureSpec  the derivation and scoring steps as pure functions applied  *)
(*             to bounded record sets.                                     *)
(*                                                                         *)
(* Numbers: percentages are kept in hundredths (60.00 is 6000), scores as  *)
(* exact mixed fractions.  The floats of the source are modelled by exact  *)
(* rationals rounded half-to-even, as numpy's round does.  A script run is *)
(* one step: it runs to its end (or to its st.rerun()) before the next     *)
(* event is taken.                                                         *)
(***************************************************************************)
EXTENDS Integers, Sequences, FiniteSets, TLC

\* ------------------------------------------------------------------------
\* Bounds of the pure-function specification
\* ------------------------------------------------------------------------

\* Longest record set drawn (rows, in the generator's loop order).
MaxRows == 6
\* Largest vote count drawn for a row.
MaxVotes == 2

\* ------------------------------------------------------------------------
\* Program constants
\* ------------------------------------------------------------------------

regions == <<"North", "South", "East", "West", "Central">>

parties == <<"Party A", "Party B", "Party C", "Party D", "Independent">>

\* range(1, 21): constituencies per region.
ConstituenciesPerRegion == 20

\* The party keys in the order groupby('party') yields them (sorted).
SortedParties == <<"Independent", "Party A", "Party B", "Party C", "Party D">>

\* None, and a present value, of an optional (st.session_state entries, the
\* cache, a page's output).
None == <<>>

Some(x) == <<x>>

\* The votes of line 102 under the stream np.random.seed(42) fixes (MT19937;
\* per constituency one randint, per row uniform, uniform, choice, uniform),
\* one tuple per constituency in loop order (regions, then const_id 1..20),
\* one entry per party in the order of `parties`.  The first constituency
\* draws total_voters 171958.
SeededVotes == <<
    <<36875, 25691, 23512, 14363, 6564>>, <<23838, 23554, 17334, 22130, 9944>>,
    <<13934, 11473, 12871, 9673, 3388>>, <<15335, 8650, 7427, 8252, 6396>>,
    <<17703, 22419, 17992, 11264, 3407>>, <<32820, 30773, 27995, 13981, 6808>>,
    <<33984, 28981, 20762, 18518, 14120>>, <<33206, 25900, 20938, 12321, 10892>>,
    <<26201, 22246, 18276, 13605, 16414>>, <<37393, 31554, 21603, 19403, 13647>>,
    <<16952, 18112, 10634, 11897, 4678>>, <<45354, 37488, 27709, 23016, 21097>>,
    <<46605, 31127, 30274, 24794, 16804>>, <<34655, 32348, 26109, 14642, 9144>>,
    <<23674, 18042, 17390, 12614, 10805>>, <<16919, 14875, 9673, 10687, 6823>>,
    <<23630, 20741, 14805, 11794, 6364>>, <<18728, 14427, 13740, 10649, 3398>>,
    <<30533, 25724, 20388, 19774, 11390>>, <<27215, 23471, 19973, 13807, 6156>>,
    <<19449, 17008, 15901, 11101, 10415>>, <<9914, 8247, 10008, 5205, 4313>>,
    <<11892, 8731, 12025, 6547, 2996>>, <<15202, 10767, 11169, 6146, 5284>>,
    <<17928, 14122, 12867, 10503, 3708>>, <<19503, 15351, 7735, 9216, 7110>>,
    <<37408, 34437, 26573, 21612, 7611>>, <<22542, 19785, 12445, 9642, 6881>>,
    <<26149, 17858, 10975, 9130, 5420>>, <<28033, 32144, 17463, 13575, 7698>>,
    <<37492, 35661, 33813, 16454, 10618>>, <<27476, 24613, 24274, 14863, 8141>>,
    <<27567, 24550, 20856, 14585, 10127>>, <<23486, 15545, 11034, 8899, 5304>>,
    <<37965, 23304, 23517, 24875, 18166>>, <<28745, 24789, 22525, 13427, 10840>>,
    <<33565, 37208, 32621, 29689, 8934>>, <<20224, 18818, 16669, 8859, 8620>>,
    <<32422, 22821, 23955, 13738, 10580>>, <<20375, 14849, 8122, 6890, 4193>>,
    <<17309, 18880, 10542, 8871, 7822>>, <<33200, 25600, 21230, 15351, 5601>>,
    <<40070, 37495, 25861, 17067, 8406>>, <<38933, 19109, 17718, 19934, 9356>>,
    <<39513, 30865, 34541, 18755, 15453>>, <<45247, 26461, 22141, 20401, 13720>>,
    <<42521, 29279, 32882, 24397, 12394>>, <<43319, 25121, 28859, 26186, 7888>>,
    <<16508, 18989, 12280, 14226, 4888>>, <<19303, 18696, 13687, 10227, 6536>>,
    <<34840, 30959, 17917, 21633, 10288>>, <<26217, 27035, 21484, 17316, 5902>>,
    <<17254, 17802, 15272, 8515, 7862>>, <<32716, 22417, 16118, 13745, 4877>>,
    <<13078, 11466, 9448, 12454, 7785>>, <<24971, 26529, 21645, 11115, 9800>>,
    <<19655, 12731, 12342, 8143, 6549>>, <<39679, 33095, 18012, 20699, 7327>>,
    <<23734, 25152, 20755, 10645, 10710>>, <<22989, 21212, 15886, 7616, 7270>>,
    <<48315, 24973, 24177, 22396, 6444>>, <<33681, 23700, 21785, 18951, 6717>>,
    <<31667, 35510, 22149, 19797, 15326>>, <<31727, 28414, 14591, 15031, 12549>>,
    <<13368, 10546, 8408, 8333, 6960>>, <<28626, 31053, 23608, 17183, 7355>>,
    <<15021, 15117, 11162, 6833, 4284>>, <<16179, 13272, 8925, 9419, 8516>>,
    <<22659, 18815, 21476, 10324, 7391>>, <<20744, 22457, 19281, 18352, 10455>>,
    <<26597, 18331, 19133, 13145, 10830>>, <<14157, 9229, 6879, 5465, 2037>>,
    <<15572, 11013, 10994, 10835, 3177>>, <<36289, 21666, 21751, 11137, 15321>>,
    <<22141, 24652, 17225, 14107, 6300>>, <<34525, 36804, 20787, 20405, 8393>>,
    <<10123, 9980, 9123, 8411, 3875>>, <<32789, 29422, 23533, 24807, 7058>>,
    <<22924, 18484, 15496, 7987, 7187>>, <<35995, 18500, 18211, 14639, 11687>>,
    <<23519, 21785, 16947, 8744, 10026>>, <<12059, 13237, 8069, 4981, 3560>>,
    <<29303, 19528, 18488, 15028, 11775>>, <<31844, 23253, 26803, 15510, 7486>>,
    <<25097, 16656, 14174, 12941, 7329>>, <<20421, 14584, 19111, 9035, 5137>>,
    <<27560, 16942, 23237, 10787, 6327>>, <<43124, 27006, 33017, 18494, 16836>>,
    <<46460, 34193, 21192, 19385, 22799>>, <<48171, 24990, 28748, 21495, 10995>>,
    <<12134, 12304, 6176, 5140, 5347>>, <<28611, 19674, 14879, 19246, 12734>>,
    <<24750, 23712, 24893, 12568, 6039>>, <<18379, 21171, 13917, 13726, 7393>>,
    <<34171, 29611, 20876, 11263, 8949>>, <<25971, 30759, 19555, 14253, 7898>>,
    <<42867, 30588, 29440, 23147, 17703>>, <<44653, 31580, 19639, 20933, 11864>>,
    <<18092, 17994, 13027, 8866, 7508>>, <<46512, 32568, 33420, 15659, 17563>>
>>

\* ------------------------------------------------------------------------
\* Synthesis (generate_election_data, lines 77-118)
\* ------------------------------------------------------------------------

\* The row the loop appends k-th: regions outermost, then const_id, then
\* parties.  constituency_name is the pair the f-string formats.  The columns
\* no claim reads (total_voters, counting_status, counted_votes) are left out.
DataRow(k, v) ==
    LET PerRegion == ConstituenciesPerRegion * Len(parties)
        region == regions[(((k - 1) \div PerRegion) % Len(regions)) + 1]
        const_id == (((k - 1) \div Len(parties)) % ConstituenciesPerRegion) + 1
    IN  [region |-> region,
         constituency_id |-> const_id,
         constituency_name |-> <<region, const_id>>,
         party |-> parties[((k - 1) % Len(parties)) + 1],
         votes |-> v]

RawColumns == {"region", "constituency_id", "constituency_name", "party", "votes"}

\* pd.DataFrame(data_list) for the votes vs, one per appended row.  A record
\* set without rows keeps the columns of the schema.
DataFrame(vs) ==
    [columns |-> RawColumns,
     rows |-> [k \in 1..Len(vs) |-> DataRow(k, vs[k])]]

\* data_list after the loops, as the votes of its rows.
data_list ==
    [k \in 1..(Len(SeededVotes) * Len(parties)) |->
        SeededVotes[((k - 1) \div Len(parties)) + 1][((k - 1) % Len(parties)) + 1]]

\* ------------------------------------------------------------------------
\* Derivation (generate_election_data, lines 119-120)
\* ------------------------------------------------------------------------

\* NaN, the undefined float: a sentinel below every share and probability.
NaN == -1

\* round-half-even of num / den (den > 0), the rounding of numpy's round.
RoundHalfEven(num, den) ==
    LET q == num \div den
        r == num % den
    IN  IF 2 * r > den \/ (2 * r = den /\ q % 2 = 1) THEN q + 1 ELSE q

VoteSharePctTruncated(votes, total) ==
    IF total = 0 THEN NaN ELSE (votes * 10000) \div total

\* (votes / total_constituency_votes * 100).round(2), in hundredths; 0 / 0 is
\* NaN in pandas, not a fault.
VoteSharePct(votes, total) ==
    IF total = 0 THEN NaN ELSE RoundHalfEven(votes * 10000, total)

RECURSIVE SeqSum(_, _, _)
\* The sum of s[lo..hi], by halves.
SeqSum(s, lo, hi) ==
    IF lo > hi THEN 0
    ELSE IF lo = hi THEN s[lo]
    ELSE LET mid == (lo + hi) \div 2
         IN  SeqSum(s, lo, mid) + SeqSum(s, mid + 1, hi)

\* groupby('constituency_name')['votes'].transform('sum'): each name's sum
\* of votes over the rows that carry it.
ConstituencyTotals(rows) ==
    [n \in {rows[i].constituency_name : i \in 1..Len(rows)} |->
        SeqSum([i \in 1..Len(rows) |->
                    IF rows[i].constituency_name = n THEN rows[i].votes ELSE 0],
               1, Len(rows))]

DerivedColumns == {"total_constituency_votes", "vote_share_pct"}

DeriveAccumulating(df) ==
    LET totals == ConstituencyTotals(df.rows)
        Old(r) == IF "total_constituency_votes" \in DOMAIN r
                  THEN r.total_constituency_votes ELSE 0
    IN  [columns |-> df.columns \cup DerivedColumns,
         rows |-> [i \in 1..Len(df.rows) |->
            LET r == df.rows[i]
                t == Old(r) + totals[r.constituency_name]
            IN  [region |-> r.region,
                 constituency_id |-> r.constituency_id,
                 constituency_name |-> r.constituency_name,
                 party |-> r.party,
                 votes |-> r.votes,
                 total_constituency_votes |-> t,
                 vote_share_pct |-> VoteSharePct(r.votes, t)]]]

\* The two column assignments: the grouped transform('sum') of votes, then
\* the rounded share.  Both read only `votes` and overwrite their column.
Derive(df) ==
    LET totals == ConstituencyTotals(df.rows)
    IN  [columns |-> df.columns \cup DerivedColumns,
         rows |-> [i \in 1..Len(df.rows) |->
            LET r == df.rows[i]
                t == totals[r.constituency_name]
            IN  [region |-> r.region,
                 constituency_id |-> r.constituency_id,
                 constituency_name |-> r.constituency_name,
                 party |-> r.party,
                 votes |-> r.votes,
                 total_constituency_votes |-> t,
                 vote_share_pct |-> VoteSharePct(r.votes, t)]]]

\* The frame generate_election_data returns.
generate_election_data == Derive(DataFrame(data_list))

\* ------------------------------------------------------------------------
\* Scoring (predict_winner_ensemble, lines 166-185)
\* ------------------------------------------------------------------------

\* One group of groupby('party').agg: votes sum and count, and what the mean
\* of vote_share_pct needs (it skips NaN): the sum and number of defined
\* shares.  avg_votes and std_votes enter no later column and are left out.
GroupStats(rows, p) ==
    LET n == Len(rows)
        In(i) == rows[i].party = p
        Defined(i) == In(i) /\ rows[i].vote_share_pct # NaN
    IN  [total_votes |-> SeqSum([i \in 1..n |-> IF In(i) THEN rows[i].votes ELSE 0], 1, n),
         count |-> SeqSum([i \in 1..n |-> IF In(i) THEN 1 ELSE 0], 1, n),
         share_sum |-> SeqSum([i \in 1..n |->
                           IF Defined(i) THEN rows[i].vote_share_pct ELSE 0], 1, n),
         share_n |-> SeqSum([i \in 1..n |-> IF Defined(i) THEN 1 ELSE 0], 1, n)]

\* The groups in key order: the sorted parties that have a row.
GroupKeys(rows) ==
    SelectSeq(SortedParties, LAMBDA p : \E i \in 1..Len(rows) : rows[i].party = p)

RECURSIVE GCD(_, _)
GCD(a, b) == IF b = 0 THEN a ELSE GCD(b, a % b)

LCM(a, b) == (a \div GCD(a, b)) * b

RECURSIVE LCMOfCounts(_, _)
LCMOfCounts(stats, i) ==
    IF i > Len(stats) THEN 1
    ELSE LET rest == LCMOfCounts(stats, i + 1)
         IN  IF stats[i].share_n = 0 THEN rest ELSE LCM(stats[i].share_n, rest)

\* Scores are exact mixed fractions <<whole, num>> = whole + num / den with
\* 0 <= num < den, over one denominator for the frame: every score is a
\* multiple of 1 / (10 * share_n).
ScoreDen(stats) == 10 * LCMOfCounts(stats, 1)

NaNScore == <<NaN, 0>>

MGeq(a, b) == a[1] > b[1] \/ (a[1] = b[1] /\ a[2] >= b[2])

MAdd(a, b, den) == <<a[1] + b[1] + ((a[2] + b[2]) \div den), (a[2] + b[2]) % den>>

MSub(a, b, den) ==
    IF a[2] >= b[2] THEN <<a[1] - b[1], a[2] - b[2]>>
    ELSE <<a[1] - b[1] - 1, a[2] + den - b[2]>>

\* total_votes * 0.5 + count * 1000 * 0.3 + avg_share * 100 * 0.2, with
\* avg_share = share_sum / share_n percent-hundredths: the last term is
\* share_sum / (5 * share_n).  NaN when the party has no defined share.
Score(st, den) ==
    IF st.share_n = 0 THEN NaNScore
    ELSE LET five == 5 * st.share_n
             half == <<st.total_votes \div 2, (st.total_votes % 2) * (den \div 2)>>
             cnt == <<300 * st.count, 0>>
             share == <<st.share_sum \div five,
                        (st.share_sum % five) * (den \div five)>>
         IN  MAdd(MAdd(half, cnt, den), share, den)

RECURSIVE ScoreSum(_, _, _)
\* party_stats['score'].sum(): NaN scores are skipped, the empty sum is 0.
ScoreSum(scores, i, den) ==
    IF i > Len(scores) THEN <<0, 0>>
    ELSE LET rest == ScoreSum(scores, i + 1, den)
         IN  IF scores[i] = NaNScore THEN rest ELSE MAdd(scores[i], rest, den)

RECURSIVE TimesTen(_, _, _, _, _, _)
\* <<(10 * r) div y, (10 * r) mod y>> for r < y, by ten additions of r.
TimesTen(k, digit, s, r, y, den) ==
    IF k = 0 THEN <<digit, s>>
    ELSE LET t == MAdd(s, r, den)
         IN  IF MGeq(t, y) THEN TimesTen(k - 1, digit + 1, MSub(t, y, den), r, y, den)
             ELSE TimesTen(k - 1, digit, t, r, y, den)

RECURSIVE Digits(_, _, _, _, _)
\* n more decimal digits of the quotient q with remainder r, dividing by y.
Digits(n, q, r, y, den) ==
    IF n = 0 THEN <<q, r>>
    ELSE LET d == TimesTen(10, 0, <<0, 0>>, r, y, den)
         IN  Digits(n - 1, 10 * q + d[1], d[2], y, den)

\* The hundredths of x / y * 100 (0 <= x <= y, y > 0) before rounding, with
\* the remainder: long division, four digits.
PercentDigits(x, y, den) ==
    IF MGeq(x, y) THEN Digits(4, 1, MSub(x, y, den), y, den)
    ELSE Digits(4, 0, x, y, den)

WinProbabilityTruncated(score, sum, den) ==
    IF score = NaNScore \/ sum = <<0, 0>> THEN NaN
    ELSE PercentDigits(score, sum, den)[1]

\* (score / score.sum() * 100).round(2), in hundredths.  NaN for a NaN score;
\* score.sum() is 0 only when every score is NaN.
WinProbability(score, sum, den) ==
    IF score = NaNScore \/ sum = <<0, 0>> THEN NaN
    ELSE LET qr == PercentDigits(score, sum, den)
             twice == MAdd(qr[2], qr[2], den)
         IN  IF twice # sum /\ MGeq(twice, sum) THEN qr[1] + 1
             ELSE IF twice = sum /\ qr[1] % 2 = 1 THEN qr[1] + 1
             ELSE qr[1]

PredictedVotesRounded(total_votes) == (total_votes * 105 + 50) \div 100

\* (total_votes * 1.05).astype(int): astype(int) drops the fraction.
PredictedVotes(total_votes) == (total_votes * 105) \div 100

RECURSIVE InsertAscending(_, _, _)
InsertAscending(sorted, row, i) ==
    IF i > Len(sorted) THEN Append(sorted, row)
    ELSE IF sorted[i].win_probability > row.win_probability
         THEN SubSeq(sorted, 1, i - 1) \o <<row>> \o SubSeq(sorted, i, Len(sorted))
         ELSE InsertAscending(sorted, row, i + 1)

RECURSIVE InsertDescending(_, _, _)
\* row goes before the first row with a smaller key (NaN below every
\* number), after every row with an equal one: a stable descending sort.
InsertDescending(sorted, row, i) ==
    IF i > Len(sorted) THEN Append(sorted, row)
    ELSE IF sorted[i].win_probability < row.win_probability
         THEN SubSeq(sorted, 1, i - 1) \o <<row>> \o SubSeq(sorted, i, Len(sorted))
         ELSE InsertDescending(sorted, row, i + 1)

RECURSIVE SortAscending(_, _, _)
SortAscending(rows, i, sorted) ==
    IF i > Len(rows) THEN sorted
    ELSE SortAscending(rows, i + 1, InsertAscending(sorted, rows[i], 1))

RECURSIVE SortValues(_, _, _)
\* sort_values('win_probability', ascending=False): descending, NaN last,
\* equal keys in group order (the sort is stable on frames this small).
SortValues(rows, i, sorted) ==
    IF i > Len(rows) THEN sorted
    ELSE SortValues(rows, i + 1, InsertDescending(sorted, rows[i], 1))

RECURSIVE StatsOf(_, _, _)
\* The aggregated groups, one per key from the j-th on.
StatsOf(rows, keys, j) ==
    IF j > Len(keys) THEN <<>>
    ELSE <<GroupStats(rows, keys[j])>> \o StatsOf(rows, keys, j + 1)

RECURSIVE ScoresOf(_, _, _)
\* party_stats['score'], from the j-th group on.
ScoresOf(stats, den, j) ==
    IF j > Len(stats) THEN <<>>
    ELSE <<Score(stats[j], den)>> \o ScoresOf(stats, den, j + 1)

RECURSIVE PartyStats(_, _, _, _, _, _)
\* The rows of party_stats with every column assigned, from the j-th on.
PartyStats(keys, stats, scores, sum, den, j) ==
    IF j > Len(keys) THEN <<>>
    ELSE <<[party |-> keys[j],
            total_votes |-> stats[j].total_votes,
            count |-> stats[j].count,
            avg_share |-> <<stats[j].share_sum, stats[j].share_n>>,
            score |-> scores[j],
            win_probability |-> WinProbability(scores[j], sum, den),
            predicted_votes |-> PredictedVotes(stats[j].total_votes)]>>
         \o PartyStats(keys, stats, scores, sum, den, j + 1)

\* predict_winner_ensemble(df): the sorted party_stats frame.  No statement of
\* the function raises: a frame of zero rows has no groups and comes back as
\* zero rows.
predict_winner_ensemble(df) ==
    LET keys == GroupKeys(df.rows)
        stats == StatsOf(df.rows, keys, 1)
        den == ScoreDen(stats)
        scores == ScoresOf(stats, den, 1)
        sum == ScoreSum(scores, 1, den)
        party_stats == PartyStats(keys, stats, scores, sum, den, 1)
    IN  [error |-> "none", rows |-> SortValues(party_stats, 1, <<>>)]

\* ------------------------------------------------------------------------
\* The pages (winner_prediction, main)
\* ------------------------------------------------------------------------

\* The options of the sidebar radio, first one the default.
Pages == <<"Home", "About", "Voting Dashboard", "Counting Dashboard",
           "Winner Prediction", "Module 1: Vote Share",
           "Module 2: Regional Comparison">>

\* The options of the Model selectbox, first one the default.
Models == <<"Ensemble", "Linear Regression", "Random Forest", "Bayesian">>

\* st.slider("Confidence", 0.80, 0.99, 0.95, 0.01), in hundredths.
MinConfidence == 80

MaxConfidence == 99

DefaultConfidence == 95

\* The slider positions the model tries: both ends and the default.
ConfidenceChoices == {MinConfidence, DefaultConfidence, MaxConfidence}

\* What the login form is tried with.
Usernames == {"admin", "guest"}

Passwords == {"password123", "letmein"}

CredentialsOk(username, password) ==
    username = "admin" /\ password = "password123"

\* predictions.iloc[0], the row the winner card shows.
Winner(predictions) == predictions.rows[1]

winner_prediction_by_model(df, selected_model, selected_confidence, run) ==
    IF ~run THEN None
    ELSE LET ensemble == predict_winner_ensemble(df)
             predictions ==
                IF selected_model = "Ensemble" THEN ensemble
                ELSE [ensemble EXCEPT !.rows = Tail(@) \o <<Head(@)>>]
         IN  Some([model |-> selected_model,
                   confidence |-> selected_confidence,
                   predictions |-> predictions,
                   winner |-> Winner(predictions)])

\* What winner_prediction displays in a run: nothing before Run Prediction
\* was pressed in the session, else the ensemble's frame and its first row.
\* The selectbox and the slider are read into locals no statement uses.
winner_prediction(df, selected_model, selected_confidence, run) ==
    IF ~run THEN None
    ELSE LET predictions == predict_winner_ensemble(df)
         IN  Some([model |-> selected_model,
                   confidence |-> selected_confidence,
                   predictions |-> predictions,
                   winner |-> Winner(predictions)])

\* The page function main dispatches to for a radio option.
PageHandler(p) ==
    CASE p = "Home" -> "home_page"
      [] p = "About" -> "about_page"
      [] p = "Voting Dashboard" -> "voting_dashboard"
      [] p = "Counting Dashboard" -> "counting_dashboard"
      [] p = "Winner Prediction" -> "winner_prediction"
      [] p = "Module 1: Vote Share" -> "module1_page"
      [] p = "Module 2: Regional Comparison" -> "module2_page"

\* The page functions that read st.session_state.election_data.
DataHandlers == {"home_page", "voting_dashboard", "counting_dashboard",
                 "winner_prediction", "module1_page", "module2_page"}

RenderedUngated(auth, p) == PageHandler(p)

\* main: the function a script run renders with.
Rendered(auth, p) == IF ~auth THEN "login_page" ELSE PageHandler(p)

CallGenerateRederiving(stored) ==
    IF stored # None
    THEN [value |-> Derive(stored[1]), stored |-> stored, synthesized |-> 0, derived |-> 1]
    ELSE [value |-> generate_election_data, stored |-> Some(generate_election_data),
          synthesized |-> 1, derived |-> 1]

\* A call of generate_election_data through @st.cache_data: the body runs,
\* synthesis then derivation, only when nothing is stored; a later call
\* returns the stored frame.
CallGenerate(stored) ==
    IF stored # None
    THEN [value |-> stored[1], stored |-> stored, synthesized |-> 0, derived |-> 0]
    ELSE [value |-> generate_election_data, stored |-> Some(generate_election_data),
          synthesized |-> 1, derived |-> 1]

\* ------------------------------------------------------------------------
\* State
\* ------------------------------------------------------------------------

VARIABLES
    authenticated,    \* st.session_state.authenticated
    election_data,    \* st.session_state.election_data: None or Some(frame)
    prediction_run,   \* st.session_state.get('prediction_run', False)
    page,             \* the sidebar radio's option
    model,            \* the Model selectbox's option
    confidence,       \* the Confidence slider's value
    cache,            \* what @st.cache_data stores for generate_election_data
    handler,          \* the function the last script run rendered with
    shown,            \* what winner_prediction displayed in the last run
    baseline,         \* history: the first prediction displayed
    syntheses,        \* history: runs of lines 77-118
    derivations,      \* history: runs of lines 119-120
    pressed,          \* history: Run Prediction was pressed since the last login
    records,          \* PureSpec: the record set drawn
    frame,            \* PureSpec: the frame the steps are applied to
    derive_calls,     \* PureSpec: derivations applied to frame
    result            \* PureSpec: None or Some(predict_winner_ensemble(frame))

sessionVars == <<authenticated, election_data, prediction_run, page, model,
                 confidence, cache, handler, shown, baseline, syntheses,
                 derivations, pressed>>

pureVars == <<records, frame, derive_calls, result>>

vars == <<sessionVars, pureVars>>

\* ------------------------------------------------------------------------
\* The session: one action per script run
\* ------------------------------------------------------------------------

\* Lines 65-68, then the first run of main: the login page.
SessionInit ==
    /\ authenticated = FALSE
    /\ election_data = None
    /\ prediction_run = FALSE
    /\ page = Pages[1]
    /\ model = Models[1]
    /\ confidence = DefaultConfidence
    /\ cache = None
    /\ handler = Rendered(FALSE, Pages[1])
    /\ shown = None
    /\ baseline = None
    /\ syntheses = 0
    /\ derivations = 0
    /\ pressed = FALSE

PureIdle ==
    /\ records = DataFrame(<<>>)
    /\ frame = DataFrame(<<>>)
    /\ derive_calls = 0
    /\ result = None

Init == SessionInit /\ PureIdle

\* The end of a script run that leaves the session state as given: main
\* renders, and a widget that is not rendered loses its value.
Run(auth, data, run, p, m, c) ==
    LET h == Rendered(auth, p)
        predicting == h = "winner_prediction" /\ data # None
        display == IF predicting THEN winner_prediction(data[1], m, c, run) ELSE None
    IN  /\ authenticated' = auth
        /\ election_data' = data
        /\ prediction_run' = run
        /\ page' = IF auth THEN p ELSE Pages[1]
        /\ model' = IF predicting THEN m ELSE Models[1]
        /\ confidence' = IF predicting THEN c ELSE DefaultConfidence
        /\ handler' = h
        /\ shown' = display
        /\ baseline' = IF baseline = None THEN display ELSE baseline

\* login_page, the Login button: on the right credentials the flag is set,
\* the frame is fetched and st.rerun() renders the default page.
Login(username, password) ==
    /\ ~authenticated
    /\ IF CredentialsOk(username, password)
       THEN LET g == CallGenerate(cache)
            IN  /\ Run(TRUE, Some(g.value), prediction_run, Pages[1],
                       model, confidence)
                /\ cache' = g.stored
                /\ syntheses' = syntheses + g.synthesized
                /\ derivations' = derivations + g.derived
                /\ pressed' = FALSE
       ELSE /\ Run(FALSE, election_data, prediction_run, page, model, confidence)
            /\ UNCHANGED <<cache, syntheses, derivations, pressed>>
    /\ UNCHANGED pureVars

\* login_page, the Demo Info button: the page is rendered again.
DemoInfo ==
    /\ ~authenticated
    /\ Run(FALSE, election_data, prediction_run, page, model, confidence)
    /\ UNCHANGED <<cache, syntheses, derivations, pressed>>
    /\ UNCHANGED pureVars

\* main, the sidebar radio: another page.
Navigate(p) ==
    /\ authenticated
    /\ p # page
    /\ Run(TRUE, election_data, prediction_run, p, Models[1], DefaultConfidence)
    /\ UNCHANGED <<cache, syntheses, derivations, pressed>>
    /\ UNCHANGED pureVars

\* voting_dashboard, the Refresh button: st.rerun().
Refresh ==
    /\ authenticated
    /\ page = "Voting Dashboard"
    /\ Run(TRUE, election_data, prediction_run, page, model, confidence)
    /\ UNCHANGED <<cache, syntheses, derivations, pressed>>
    /\ UNCHANGED pureVars

\* winner_prediction, the Model selectbox.
SelectModel(m) ==
    /\ authenticated
    /\ page = "Winner Prediction"
    /\ m # model
    /\ Run(TRUE, election_data, prediction_run, page, m, confidence)
    /\ UNCHANGED <<cache, syntheses, derivations, pressed>>
    /\ UNCHANGED pureVars

\* winner_prediction, the Confidence slider.
SetConfidence(c) ==
    /\ authenticated
    /\ page = "Winner Prediction"
    /\ c # confidence
    /\ Run(TRUE, election_data, prediction_run, page, model, c)
    /\ UNCHANGED <<cache, syntheses, derivations, pressed>>
    /\ UNCHANGED pureVars

\* winner_prediction, the Run Prediction button.
RunPrediction ==
    /\ authenticated
    /\ page = "Winner Prediction"
    /\ Run(TRUE, election_data, TRUE, page, model, confidence)
    /\ pressed' = TRUE
    /\ UNCHANGED <<cache, syntheses, derivations>>
    /\ UNCHANGED pureVars

LogoutClearingSession ==
    /\ authenticated
    /\ Run(FALSE, election_data, FALSE, page, model, confidence)
    /\ UNCHANGED <<cache, syntheses, derivations, pressed>>
    /\ UNCHANGED pureVars

\* main, the Logout button: the flag is cleared and st.rerun() renders the
\* login page.
Logout ==
    /\ authenticated
    /\ Run(FALSE, election_data, prediction_run, page, model, confidence)
    /\ UNCHANGED <<cache, syntheses, derivations, pressed>>
    /\ UNCHANGED pureVars

Next ==
    \/ \E u \in Usernames, pw \in Passwords : Login(u, pw)
    \/ DemoInfo
    \/ \E i \in 1..Len(Pages) : Navigate(Pages[i])
    \/ Refresh
    \/ \E i \in 1..Len(Models) : SelectModel(Models[i])
    \/ \E c \in ConfidenceChoices : SetConfidence(c)
    \/ RunPrediction
    \/ Logout

Spec == Init /\ [][Next]_vars

\* ------------------------------------------------------------------------
\* The pipeline steps as pure functions of a bounded record set
\* ------------------------------------------------------------------------

\* The record sets drawn: the first n rows of the generator's loop order
\* (the five parties of a constituency, then the next constituency), each
\* with any vote count up to MaxVotes; n = 0 is the record set without rows.
RecordSets ==
    {DataFrame(vs) : vs \in UNION {[1..n -> 0..MaxVotes] : n \in 0..MaxRows}}

PureInit ==
    /\ SessionInit
    /\ records \in RecordSets
    /\ frame = records
    /\ derive_calls = 0
    /\ result = None

\* The derivation step applied to the frame: once, and once more.
ApplyDerive ==
    /\ derive_calls < 2
    /\ result = None
    /\ frame' = Derive(frame)
    /\ derive_calls' = derive_calls + 1
    /\ UNCHANGED <<records, result>>
    /\ UNCHANGED sessionVars

\* The scoring step applied to the derived frame.
ApplyScore ==
    /\ derive_calls >= 1
    /\ result = None
    /\ result' = Some(predict_winner_ensemble(frame))
    /\ UNCHANGED <<records, frame, derive_calls>>
    /\ UNCHANGED sessionVars

PureNext == ApplyDerive \/ ApplyScore

PureSpec == PureInit /\ [][PureNext]_vars

\* ------------------------------------------------------------------------
\* Claims
\* ------------------------------------------------------------------------

\* The names groupby('constituency_name') finds in a frame.
ConstituencyNames(df) == {df.rows[i].constituency_name : i \in 1..Len(df.rows)}

\* The sum of vote_share_pct over the rows of constituency n, in hundredths.
ShareSum(df, n) ==
    SeqSum([i \in 1..Len(df.rows) |->
                IF df.rows[i].constituency_name = n
                THEN df.rows[i].vote_share_pct ELSE 0],
           1, Len(df.rows))

\* C1: in the record set generate_election_data produces, every
\* constituency's vote_share_pct values sum to between 99.99 and 100.01.
C1_VoteShareSum ==
    election_data # None =>
        \A n \in ConstituencyNames(election_data[1]) :
            ShareSum(election_data[1], n) \in 9999..10001

\* The session holds the generated frame, and rounding moved a constituency's
\* sum to 99.99 and another's to 100.01.
C1_Witness ==
    /\ election_data # None
    /\ \E n \in ConstituencyNames(election_data[1]) :
            ShareSum(election_data[1], n) = 9999
    /\ \E n \in ConstituencyNames(election_data[1]) :
            ShareSum(election_data[1], n) = 10001

\* The sum of the defined win_probability values of a result, in hundredths.
ProbabilitySum(rows) ==
    SeqSum([i \in 1..Len(rows) |->
                IF rows[i].win_probability = NaN THEN 0
                ELSE rows[i].win_probability],
           1, Len(rows))

AllDefined(rows) == \A i \in 1..Len(rows) : rows[i].win_probability # NaN

SomeDefined(rows) == \E i \in 1..Len(rows) : rows[i].win_probability # NaN

\* C2 as stated: for a record set with rows, the win_probability values sum
\* to 100.00 within 0.01.
C2_SumWithinOneHundredth ==
    (result # None /\ Len(records.rows) > 0 /\ AllDefined(result[1].rows)) =>
        ProbabilitySum(result[1].rows) \in 9999..10001

\* C2, amended: for a record set with rows, the defined win_probability
\* values sum to 100.00 within 0.02, and none is defined only when no row
\* has a defined vote share.
C2_SumWithinTwoHundredths ==
    (result # None /\ Len(records.rows) > 0) =>
        IF SomeDefined(result[1].rows)
        THEN ProbabilitySum(result[1].rows) \in 9998..10002
        ELSE \A i \in 1..Len(frame.rows) : frame.rows[i].vote_share_pct = NaN

\* Five parties were scored and their rounded probabilities sum to 99.98.
C2_Witness ==
    /\ result # None
    /\ Len(result[1].rows) = Len(parties)
    /\ AllDefined(result[1].rows)
    /\ ProbabilitySum(result[1].rows) = 9998

\* C3: scoring a record set of zero rows fails with EmptyInputError.
C3_EmptyInputError ==
    (result # None /\ Len(frame.rows) = 0) =>
        result[1].error = "EmptyInputError"

\* C4: after derivation, every row of a constituency whose total is 0 has
\* vote_share_pct 0.
C4_ZeroTotalShare ==
    derive_calls >= 1 =>
        \A i \in 1..Len(frame.rows) :
            frame.rows[i].total_constituency_votes = 0 =>
                frame.rows[i].vote_share_pct = 0

\* C5: the rows predict_winner_ensemble returns never increase in
\* win_probability (an undefined one counts below every number), and no
\* party's win_probability exceeds that of the first row, the one the
\* winner card shows.
C5_SortedDescending ==
    (result # None /\ Len(result[1].rows) > 0) =>
        LET rows == result[1].rows
        IN  /\ \A i, j \in 1..Len(rows) :
                    i < j => rows[i].win_probability >= rows[j].win_probability
            /\ \A i \in 1..Len(rows) :
                    Winner(result[1]).win_probability >= rows[i].win_probability

\* The result has parties of different probabilities, and the first row is
\* not the first group: the sort moved it up.
C5_Witness ==
    /\ result # None
    /\ Len(result[1].rows) >= 3
    /\ \E i \in 1..Len(result[1].rows) :
            /\ result[1].rows[i].win_probability # NaN
            /\ result[1].rows[i].win_probability
                    < Winner(result[1]).win_probability
    /\ Winner(result[1]).party # GroupKeys(frame.rows)[1]

\* C6 as stated: predicted_votes is total_votes * 1.05 rounded to the nearest
\* integer (at most a half away from it).
C6_RoundedToNearest ==
    shown # None =>
        \A i \in 1..Len(shown[1].predictions.rows) :
            LET r == shown[1].predictions.rows[i]
                diff == 100 * r.predicted_votes - 105 * r.total_votes
            IN  diff \in -50..50

\* C6, amended: predicted_votes is total_votes * 1.05 with the fraction
\* dropped, the largest integer not above it.
C6_Truncated ==
    shown # None =>
        \A i \in 1..Len(shown[1].predictions.rows) :
            LET r == shown[1].predictions.rows[i]
            IN  /\ 100 * r.predicted_votes <= 105 * r.total_votes
                /\ 105 * r.total_votes < 100 * (r.predicted_votes + 1)

\* A prediction is displayed in which a party's predicted_votes lies more
\* than a half below total_votes * 1.05.
C6_Witness ==
    /\ shown # None
    /\ \E i \in 1..Len(shown[1].predictions.rows) :
            LET r == shown[1].predictions.rows[i]
            IN  105 * r.total_votes - 100 * r.predicted_votes > 50

\* C7: every synthesized record set is derived exactly once, and a page that
\* reads the frame runs only on a frame that was synthesized and derived.
C7_DerivedOncePerSynthesis ==
    /\ derivations = syntheses
    /\ election_data # None =>
            /\ syntheses = 1
            /\ DerivedColumns \subseteq election_data[1].columns
    /\ handler \in DataHandlers =>
            /\ election_data # None
            /\ derivations = 1

\* After a logout, with the frame of the first login still held, no further
\* synthesis or derivation has run.
C7_Witness ==
    /\ ~authenticated
    /\ election_data # None
    /\ prediction_run
    /\ syntheses = 1
    /\ derivations = 1

C9_DeriveIdempotent ==
    [][(derive_calls = 1 /\ derive_calls' = 2) => frame' = frame]_vars

\* A frame of two constituencies with votes in both was derived twice.
C9_Witness ==
    /\ derive_calls = 2
    /\ Cardinality(ConstituencyNames(frame)) = 2
    /\ \A i \in 1..Len(frame.rows) : frame.rows[i].total_constituency_votes > 0

C11_LogoutKeepsPrediction ==
    [][/\ (authenticated /\ ~authenticated') =>
            /\ election_data' = election_data
            /\ prediction_run' = prediction_run
       /\ prediction_run => prediction_run'
       /\ (handler' = "winner_prediction" /\ prediction_run') => shown' # None]_vars

\* After a logout and a later login the Winner Prediction page displays the
\* prediction although Run Prediction was not pressed since that login.
C11_Witness ==
    /\ authenticated
    /\ handler = "winner_prediction"
    /\ shown # None
    /\ ~pressed

====
